---- MODULE Spec2Model ----
(***************************************************************************)
(* Model of eventhandler.EventHandler (src/eventhandler/__init__.py): the  *)
(* event registry, callback linking, synchronous dispatch with the         *)
(* exception-tolerance policy, and the deferred queue.                     *)
(*                                                                         *)
(* The registry is a dict from event name to a list OBJECT; list objects   *)
(* live in a heap so that a dispatch that is iterating a list keeps        *)
(* iterating that object after the registry dropped or replaced it.        *)
(* fire and loop are not atomic: they call user callbacks, which may call  *)
(* the handler again.  The call stack is explicit: a "fire" frame holds    *)
(* the list iterator of line 186, a "loop" frame the all_ok of line 216,   *)
(* and a "cb" frame is a user callback that is executing.                  *)
(***************************************************************************)
EXTENDS Integers, Sequences, FiniteSets, TLC

\* ---------------------------------------------------------------- bounds
\* queue length, handler calls per callback run, requests per test,
\* callback calls a test records
MaxQueue == 2
MaxCbOps == 1
MaxPlan == 2
MaxTrace == 6
\* requests the callbacks of a drain test append before they stop
MaxBudget == 2

\* the event names user code uses (two events)
EventNames == {1, 2}
\* the function objects user code passes as callbacks (two functions)
Callbacks == {1, 2}
\* every value user code may pass to link/unlink: the functions, a
\* non-callable (0) and a callable object that is no function (-1)
Values == Callbacks \cup {0, -1}
\* what a fire request carries to the callbacks: its (args, kwargs); user
\* code passes two different ones
Payloads == {1, 2}
\* list objects: one per event name, and one that a running dispatch may
\* still hold after the registry dropped it
ListIds == 1..(Cardinality(EventNames) + 1)

VARIABLES
  events,               \* self.__events: event name -> list id, 0 = no key
  heap,                 \* the list objects: list id -> sequence of callbacks
  event_queue,          \* self.__event_queue
  tolerate_exceptions,  \* self.tolerate_exceptions
  stack,                \* call stack of fire / loop / callback frames
  exc,                  \* the exception that is propagating, or "none"
  last,                 \* the call or step that produced this state
  trace,                \* the callback calls observed while a test records
  run                   \* the test that drives the handler, if any

vars == <<events, heap, event_queue, tolerate_exceptions, stack, exc, last,
          trace, run>>

\* ------------------------------------------------------------- helpers
NoFrame == [kind |-> "none"]

Label(op, val, name, out, fr) ==
  [op |-> op, val |-> val, name |-> name, out |-> out, fr |-> fr]

Bool(b) == IF b THEN "True" ELSE "False"

Top == stack[Len(stack)]

Pop(st) == SubSeq(st, 1, Len(st) - 1)

SeqToSet(s) == {s[i] : i \in 1..Len(s)}

Min(S) == CHOOSE x \in S : \A y \in S : x <= y

\* type of a value as isinstance sees it
TypeOf(v) ==
  IF v \in Callbacks THEN "function"
  ELSE IF v = 0 THEN "NoneType" ELSE "partial"

\* list objects the registry refers to (the running dispatches ignored)
RegistryReferenced(ev, st) == {ev[n] : n \in EventNames}

\* list objects something still refers to
Referenced(ev, st) ==
  {ev[n] : n \in EventNames} \cup
  {st[i].lst : i \in {j \in 1..Len(st) : st[j].kind = "fire"}}

\* reference counting: a list object nothing refers to is freed
Collect(h, ev, st) ==
  [i \in ListIds |-> IF i \in Referenced(ev, st) THEN h[i] ELSE <<>>]

\* the object that the expression [] of line 94 creates
NewList(ev, st, event_name) ==
  IF event_name \notin Referenced(ev, st) THEN event_name
  ELSE Min({i \in ListIds : i \notin Referenced(ev, st)})

\* the callbacks of every registered event, by name
Registry ==
  [n \in {m \in EventNames : events[m] # 0} |-> heap[events[n]]]

\* a call the user code makes counts against the running callback
Called(st) ==
  IF st # <<>> /\ st[Len(st)].kind = "cb"
    THEN [st EXCEPT ![Len(st)].ops = @ + 1]
    ELSE st

\* ghost: mark the dispatches that are iterating list object l as disturbed
Touch(st, l) ==
  [i \in 1..Len(st) |->
     IF st[i].kind = "fire" /\ st[i].lst = l
       THEN [st[i] EXCEPT !.mut = TRUE] ELSE st[i]]

AtTopLevel == stack = <<>>

\* user code may call the handler: the top level, or a running callback
Permitted ==
  /\ exc = "none"
  /\ \/ stack = <<>>
     \/ stack # <<>> /\ Top.kind = "cb" /\ Top.ops < MaxCbOps

\* ------------------------------------------------- registry operations
is_event_registered(ev, event_name) == ev[event_name] # 0

is_callable(func) == TypeOf(func) \in {"function", "builtin", "method"}

never_in_event(ev, h, event_name, callback) == FALSE

is_callback_in_event(ev, h, event_name, callback) ==
  callback \in SeqToSet(h[ev[event_name]])

clear_events ==
  /\ Permitted
  /\ events' = [n \in EventNames |-> 0]
  /\ stack' = Called(stack)
  /\ heap' = Collect(heap, events', stack')
  /\ last' = Label("clear_events", 0, 0, "True", NoFrame)
  /\ UNCHANGED <<event_queue, tolerate_exceptions, exc>>

\* register_event without the check of line 89: the name always gets a new
\* empty list
register_event_reset(event_name) ==
  /\ Permitted
  /\ stack' = Called(stack)
  /\ LET ev == [events EXCEPT ![event_name] = 0]
         l == NewList(ev, stack, event_name)
     IN  /\ events' = [events EXCEPT ![event_name] = l]
         /\ heap' = [Collect(heap, ev, stack) EXCEPT ![l] = <<>>]
  /\ last' = Label("register_event", 0, event_name, "True", NoFrame)
  /\ UNCHANGED <<event_queue, tolerate_exceptions, exc>>

register_event(event_name) ==
  /\ Permitted
  /\ stack' = Called(stack)
  /\ IF is_event_registered(events, event_name)
       THEN /\ UNCHANGED <<events, heap>>
            /\ last' = Label("register_event", 0, event_name, "False", NoFrame)
       ELSE /\ events' = [events EXCEPT
                            ![event_name] = NewList(events, stack, event_name)]
            /\ heap' = [heap EXCEPT ![events'[event_name]] = <<>>]
            /\ last' = Label("register_event", 0, event_name, "True", NoFrame)
  /\ UNCHANGED <<event_queue, tolerate_exceptions, exc>>

\* unregister_event that empties the event's list and keeps the name
unregister_event_keep_key(event_name) ==
  /\ Permitted
  /\ stack' = Called(stack)
  /\ IF event_name \in {n \in EventNames : events[n] # 0}
       THEN /\ heap' = [heap EXCEPT ![events[event_name]] = <<>>]
            /\ last' = Label("unregister_event", 0, event_name, "True", NoFrame)
       ELSE /\ heap' = heap
            /\ last' = Label("unregister_event", 0, event_name, "False", NoFrame)
  /\ UNCHANGED <<events, event_queue, tolerate_exceptions, exc>>

\* line 103-108: del of the key, or False when there is no such key
unregister_event(event_name) ==
  /\ Permitted
  /\ stack' = Called(stack)
  /\ IF event_name \in {n \in EventNames : events[n] # 0}
       THEN /\ events' = [events EXCEPT ![event_name] = 0]
            /\ heap' = Collect(heap, events', stack')
            /\ last' = Label("unregister_event", 0, event_name, "True", NoFrame)
       ELSE /\ UNCHANGED <<events, heap>>
            /\ last' = Label("unregister_event", 0, event_name, "False", NoFrame)
  /\ UNCHANGED <<event_queue, tolerate_exceptions, exc>>

link_prepend(lst, callback) == <<callback>> \o lst

\* line 148: list.append
link_append(lst, callback) == Append(lst, callback)

\* link as a registry with implicit registration would do it
link_setdefault(callback, event_name) ==
  /\ Permitted
  /\ is_callable(callback)
  /\ LET l == IF is_event_registered(events, event_name)
                THEN events[event_name]
                ELSE NewList(events, stack, event_name)
     IN  /\ events' = [events EXCEPT ![event_name] = l]
         /\ heap' = [heap EXCEPT ![l] =
                       IF callback \in SeqToSet(@) THEN @
                       ELSE link_append(@, callback)]
         /\ stack' = Touch(Called(stack), l)
         /\ last' = Label("link", callback, event_name,
                          Bool(heap' # heap), NoFrame)
  /\ UNCHANGED <<event_queue, tolerate_exceptions, exc>>

\* link that looks the event up before it looks at the callback
link_event_first(callback, event_name) ==
  /\ Permitted
  /\ IF ~is_event_registered(events, event_name)
       THEN /\ stack' = Called(stack)
            /\ exc' = "EventNotAllowedError"
            /\ last' = Label("link", callback, event_name,
                             "EventNotAllowedError", NoFrame)
            /\ UNCHANGED <<events, heap>>
       ELSE IF is_callable(callback)
                 /\ ~is_callback_in_event(events, heap, event_name, callback)
       THEN /\ heap' = [heap EXCEPT ![events[event_name]] =
                                       link_append(@, callback)]
            /\ stack' = Touch(Called(stack), events[event_name])
            /\ last' = Label("link", callback, event_name, "True", NoFrame)
            /\ UNCHANGED <<events, exc>>
       ELSE /\ stack' = Called(stack)
            /\ last' = Label("link", callback, event_name, "False", NoFrame)
            /\ UNCHANGED <<events, heap, exc>>
  /\ UNCHANGED <<event_queue, tolerate_exceptions>>

\* line 137-153
link(callback, event_name) ==
  /\ Permitted
  /\ IF ~is_callable(callback)
       THEN /\ stack' = Called(stack)
            /\ last' = Label("link", callback, event_name, "False", NoFrame)
            /\ UNCHANGED <<events, heap, exc>>
       ELSE IF ~is_event_registered(events, event_name)
       THEN /\ stack' = Called(stack)
            /\ exc' = "EventNotAllowedError"
            /\ last' = Label("link", callback, event_name,
                             "EventNotAllowedError", NoFrame)
            /\ UNCHANGED <<events, heap>>
       ELSE IF ~is_callback_in_event(events, heap, event_name, callback)
       THEN /\ heap' = [heap EXCEPT ![events[event_name]] =
                                       link_append(@, callback)]
            /\ stack' = Touch(Called(stack), events[event_name])
            /\ last' = Label("link", callback, event_name, "True", NoFrame)
            /\ UNCHANGED <<events, exc>>
       ELSE /\ stack' = Called(stack)
            /\ last' = Label("link", callback, event_name, "False", NoFrame)
            /\ UNCHANGED <<events, heap, exc>>
  /\ UNCHANGED <<event_queue, tolerate_exceptions>>

\* removal that also drops everything linked after the callback
list_truncate(lst, callback) ==
  SubSeq(lst, 1, Min({i \in 1..Len(lst) : lst[i] = callback}) - 1)

\* line 169: list.remove deletes the first occurrence
list_remove(lst, callback) ==
  LET k == Min({i \in 1..Len(lst) : lst[i] = callback})
  IN  SubSeq(lst, 1, k - 1) \o SubSeq(lst, k + 1, Len(lst))

\* unlink with the hard failure of link
unlink_raising(callback, event_name) ==
  /\ Permitted
  /\ ~is_event_registered(events, event_name)
  /\ stack' = Called(stack)
  /\ exc' = "EventNotAllowedError"
  /\ last' = Label("unlink", callback, event_name, "EventNotAllowedError",
                   NoFrame)
  /\ UNCHANGED <<events, heap, event_queue, tolerate_exceptions>>

unlink(callback, event_name) ==
  /\ Permitted
  /\ IF ~is_event_registered(events, event_name)
       THEN /\ stack' = Called(stack)
            /\ last' = Label("unlink", callback, event_name, "False", NoFrame)
            /\ UNCHANGED <<events, heap, exc>>
       ELSE IF callback \in SeqToSet(heap[events[event_name]])
       THEN /\ heap' = [heap EXCEPT ![events[event_name]] =
                                       list_remove(@, callback)]
            /\ stack' = Touch(Called(stack), events[event_name])
            /\ last' = Label("unlink", callback, event_name, "True", NoFrame)
            /\ UNCHANGED <<events, exc>>
       ELSE /\ stack' = Called(stack)
            /\ last' = Label("unlink", callback, event_name, "False", NoFrame)
            /\ UNCHANGED <<events, heap, exc>>
  /\ UNCHANGED <<event_queue, tolerate_exceptions>>

\* ---------------------------------------------------------------- fire
\* line 185-186: all_ok = True and the iterator over self.__events[name]
FireFrame(event_name, payload) ==
  [kind |-> "fire", name |-> event_name, lst |-> events[event_name],
   idx |-> 0, payload |-> payload, all_ok |-> TRUE,
   snap |-> heap[events[event_name]], inv |-> <<>>, mut |-> FALSE,
   failed |-> {}]

\* the call of fire: the lookup of line 186 raises KeyError on a missing key
fire(event_name, payload) ==
  /\ Permitted
  /\ IF is_event_registered(events, event_name)
       THEN /\ stack' = Append(Called(stack), FireFrame(event_name, payload))
            /\ exc' = exc
            /\ last' = Label("fire", payload, event_name, "call", NoFrame)
       ELSE /\ stack' = Called(stack)
            /\ exc' = "KeyError"
            /\ last' = Label("fire", payload, event_name, "KeyError", NoFrame)
  /\ UNCHANGED <<events, heap, event_queue, tolerate_exceptions>>

\* line 188: the arguments the callback is called with
fire_arguments(frame) == frame.payload

\* line 186-188: the iterator yields the item at its index, if there is one,
\* and the callback is called
fire_next ==
  /\ exc = "none"
  /\ stack # <<>>
  /\ Top.kind = "fire"
  /\ Top.idx < Len(heap[Top.lst])
  /\ LET callback == heap[Top.lst][Top.idx + 1]
         frame == [Top EXCEPT !.idx = @ + 1,
                              !.inv = Append(@, <<callback, fire_arguments(Top)>>)]
     IN  /\ stack' = Append([stack EXCEPT ![Len(stack)] = frame],
                            [kind |-> "cb", cb |-> callback,
                             payload |-> fire_arguments(Top), ops |-> 0])
         /\ last' = Label("fire_next", callback, 0, "call", NoFrame)
  /\ UNCHANGED <<events, heap, event_queue, tolerate_exceptions, exc>>

\* loop keeping only the result of the last fire
deliver_last(st, result) ==
  IF st # <<>> /\ st[Len(st)].kind = "loop"
    THEN [st EXCEPT ![Len(st)].all_ok = result]
    ELSE st

\* the value a finished fire hands to its caller: loop (line 220) folds it
\* into its all_ok, any other caller just receives it
Deliver(st, result) ==
  IF st # <<>> /\ st[Len(st)].kind = "loop"
    THEN [st EXCEPT ![Len(st)].all_ok = result /\ @]
    ELSE st

\* ghost: the loop that called a fire notes what the fire returned and
\* whether it called any callback
Observe(st, frame) ==
  IF st # <<>> /\ st[Len(st)].kind = "loop"
    THEN [st EXCEPT ![Len(st)].results = @ \cup {frame.all_ok},
                    ![Len(st)].called = @ \/ frame.inv # <<>>]
    ELSE st

\* line 186, 201: the iterator is exhausted, return all_ok
fire_return ==
  /\ exc = "none"
  /\ stack # <<>>
  /\ Top.kind = "fire"
  /\ Top.idx >= Len(heap[Top.lst])
  /\ stack' = Observe(Deliver(Pop(stack), Top.all_ok), Top)
  /\ heap' = Collect(heap, events, stack')
  /\ last' = Label("fire_return", 0, 0, Bool(Top.all_ok), Top)
  /\ UNCHANGED <<events, event_queue, tolerate_exceptions, exc>>

fire_never_reraises(tolerate) == FALSE

\* line 190: strict mode raises the exception again
fire_reraises(tolerate) == ~tolerate

fire_forget_failure(frame) == frame

\* line 198: the failure is recorded
fire_record_failure(frame) == [frame EXCEPT !.all_ok = FALSE]

\* line 189-199: an exception came out of the callback
fire_except ==
  /\ exc # "none"
  /\ stack # <<>>
  /\ Top.kind = "fire"
  /\ IF fire_reraises(tolerate_exceptions)
       THEN /\ stack' = Pop(stack)
            /\ exc' = exc
            /\ heap' = Collect(heap, events, stack')
            /\ last' = Label("fire_except", 0, 0, exc, Top)
       ELSE /\ stack' = [stack EXCEPT ![Len(stack)] = fire_record_failure(@)]
            /\ exc' = "none"
            /\ heap' = heap
            /\ last' = Label("fire_except", 0, 0, "continue", NoFrame)
  /\ UNCHANGED <<events, event_queue, tolerate_exceptions>>

\* ------------------------------------------------------- user callbacks
\* ghost: the dispatch that called the callback saw it fail
Failed(st, callback) ==
  IF st # <<>> /\ st[Len(st)].kind = "fire"
    THEN [st EXCEPT ![Len(st)].failed = @ \cup {callback}]
    ELSE st

\* the callback returns
cb_return ==
  /\ exc = "none"
  /\ stack # <<>>
  /\ Top.kind = "cb"
  /\ stack' = Pop(stack)
  /\ last' = Label("cb_return", Top.cb, 0, "None", NoFrame)
  /\ UNCHANGED <<events, heap, event_queue, tolerate_exceptions, exc>>

\* the callback raises an exception of its own
cb_raise ==
  /\ exc = "none"
  /\ stack # <<>>
  /\ Top.kind = "cb"
  /\ stack' = Failed(Pop(stack), Top.cb)
  /\ exc' = "CallbackError"
  /\ last' = Label("cb_raise", Top.cb, 0, "CallbackError", NoFrame)
  /\ UNCHANGED <<events, heap, event_queue, tolerate_exceptions>>

\* a handler call the callback made raised: the callback catches it
cb_catch ==
  /\ exc # "none"
  /\ stack # <<>>
  /\ Top.kind = "cb"
  /\ exc' = "none"
  /\ last' = Label("cb_catch", Top.cb, 0, exc, NoFrame)
  /\ UNCHANGED <<events, heap, event_queue, tolerate_exceptions, stack>>

\* ... or lets it through
cb_propagate ==
  /\ exc # "none"
  /\ stack # <<>>
  /\ Top.kind = "cb"
  /\ stack' = Failed(Pop(stack), Top.cb)
  /\ last' = Label("cb_propagate", Top.cb, 0, exc, NoFrame)
  /\ UNCHANGED <<events, heap, event_queue, tolerate_exceptions, exc>>

\* the exception reaches the code that called the handler from outside
caller_except ==
  /\ exc # "none"
  /\ stack = <<>>
  /\ exc' = "none"
  /\ last' = Label("caller_except", 0, 0, exc, NoFrame)
  /\ UNCHANGED <<events, heap, event_queue, tolerate_exceptions, stack>>

\* ------------------------------------------------------ deferred queue
\* append with the registration check of link
append_registered(event_name, payload) ==
  /\ Permitted
  /\ Len(event_queue) < MaxQueue
  /\ stack' = Called(stack)
  /\ IF is_event_registered(events, event_name)
       THEN /\ event_queue' = Append(event_queue, <<event_name, payload>>)
            /\ exc' = exc
            /\ last' = Label("append", payload, event_name, "None", NoFrame)
       ELSE /\ event_queue' = event_queue
            /\ exc' = "EventNotAllowedError"
            /\ last' = Label("append", payload, event_name,
                             "EventNotAllowedError", NoFrame)
  /\ UNCHANGED <<events, heap, tolerate_exceptions>>

\* line 211: deque.append of the request
append(event_name, payload) ==
  /\ Permitted
  /\ Len(event_queue) < MaxQueue
  /\ event_queue' = Append(event_queue, <<event_name, payload>>)
  /\ stack' = Called(stack)
  /\ last' = Label("append", payload, event_name, "None", NoFrame)
  /\ UNCHANGED <<events, heap, tolerate_exceptions, exc>>

\* line 216: all_ok = True; ghost: the requests queued when loop was called
\* that it has not fired yet (todo), the queue as the last popleft left it
\* (rest), the results of the fires so far, and whether a callback ran
LoopFrame ==
  [kind |-> "loop", all_ok |-> TRUE, todo |-> event_queue,
   rest |-> event_queue, results |-> {}, called |-> FALSE]

\* line 216: the call of loop
loop ==
  /\ Permitted
  /\ stack' = Append(Called(stack), LoopFrame)
  /\ last' = Label("loop", 0, 0, "call", NoFrame)
  /\ UNCHANGED <<events, heap, event_queue, tolerate_exceptions, exc>>

pop_right(q) == <<q[Len(q)], SubSeq(q, 1, Len(q) - 1)>>

\* line 218: deque.popleft
popleft(q) == <<Head(q), Tail(q)>>

\* loop that drops a request whose event is not registered and goes on
loop_fire_skip ==
  /\ exc = "none"
  /\ stack # <<>>
  /\ Top.kind = "loop"
  /\ event_queue # <<>>
  /\ LET event == popleft(event_queue)[1]
         frame == [Top EXCEPT !.todo = IF @ = <<>> THEN @ ELSE Tail(@),
                              !.rest = popleft(event_queue)[2]]
     IN  /\ event_queue' = popleft(event_queue)[2]
         /\ IF is_event_registered(events, event[1])
              THEN /\ stack' = Append([stack EXCEPT ![Len(stack)] = frame],
                                      FireFrame(event[1], event[2]))
                   /\ last' = Label("loop_fire", event[2], event[1], "call",
                                    Top)
              ELSE /\ stack' = [stack EXCEPT ![Len(stack)] = frame]
                   /\ last' = Label("loop_fire", event[2], event[1], "skip",
                                    Top)
  /\ UNCHANGED <<events, heap, tolerate_exceptions, exc>>

\* line 217-220: the queue is not empty: pop the oldest request and fire it
loop_fire ==
  /\ exc = "none"
  /\ stack # <<>>
  /\ Top.kind = "loop"
  /\ event_queue # <<>>
  /\ LET event == popleft(event_queue)[1]
         event_name == event[1]
         payload == event[2]
         frame == [Top EXCEPT !.todo = IF @ = <<>> THEN @ ELSE Tail(@),
                              !.rest = popleft(event_queue)[2]]
     IN  /\ event_queue' = popleft(event_queue)[2]
         /\ IF is_event_registered(events, event_name)
              THEN /\ stack' = Append([stack EXCEPT ![Len(stack)] = frame],
                                      FireFrame(event_name, payload))
                   /\ exc' = exc
                   /\ last' = Label("loop_fire", payload, event_name, "call",
                                    Top)
              ELSE /\ stack' = [stack EXCEPT ![Len(stack)] = frame]
                   /\ exc' = "KeyError"
                   /\ last' = Label("loop_fire", payload, event_name,
                                    "KeyError", Top)
  /\ UNCHANGED <<events, heap, tolerate_exceptions>>

\* loop that stops once the requests queued at its call are fired
loop_return_early ==
  /\ exc = "none"
  /\ stack # <<>>
  /\ Top.kind = "loop"
  /\ Top.todo = <<>>
  /\ stack' = Pop(stack)
  /\ last' = Label("loop_return", 0, 0, Bool(Top.all_ok), Top)
  /\ UNCHANGED <<events, heap, event_queue, tolerate_exceptions, exc>>

\* line 217, 221: the queue is empty, return all_ok
loop_return ==
  /\ exc = "none"
  /\ stack # <<>>
  /\ Top.kind = "loop"
  /\ event_queue = <<>>
  /\ stack' = Pop(stack)
  /\ last' = Label("loop_return", 0, 0, Bool(Top.all_ok), Top)
  /\ UNCHANGED <<events, heap, event_queue, tolerate_exceptions, exc>>

\* loop with a handler of its own: the failure is noted and the drain goes on
loop_swallow ==
  /\ exc # "none"
  /\ stack # <<>>
  /\ Top.kind = "loop"
  /\ stack' = [stack EXCEPT ![Len(stack)].all_ok = FALSE]
  /\ exc' = "none"
  /\ last' = Label("loop_except", 0, 0, exc, Top)
  /\ UNCHANGED <<events, heap, event_queue, tolerate_exceptions>>

\* loop has no handler: an exception out of fire leaves loop
loop_except ==
  /\ exc # "none"
  /\ stack # <<>>
  /\ Top.kind = "loop"
  /\ stack' = Pop(stack)
  /\ last' = Label("loop_except", 0, 0, exc, Top)
  /\ UNCHANGED <<events, heap, event_queue, tolerate_exceptions, exc>>

\* ------------------------------------------------------- specification
NoRun == [phase |-> "free"]

\* no test is driving the handler: nothing is recorded
Idle == UNCHANGED <<trace, run>>

\* line 42-50: empty registry and queue, then the initial events registered
InitHandler ==
  /\ \E registered \in SUBSET EventNames :
       events = [n \in EventNames |-> IF n \in registered THEN n ELSE 0]
  /\ heap = [i \in ListIds |-> <<>>]
  /\ event_queue = <<>>
  /\ tolerate_exceptions \in BOOLEAN
  /\ stack = <<>>
  /\ exc = "none"
  /\ last = Label("init", 0, 0, "None", NoFrame)
  /\ trace = <<>>

Init == InitHandler /\ run = NoRun

\* registry and dispatch: user code, at the top level and in callbacks,
\* calls every operation but those of the deferred queue; fire is called
\* from the top level (no dispatch inside a dispatch)
Next ==
  \/ clear_events /\ Idle
  \/ \E n \in EventNames : register_event(n) /\ Idle
  \/ \E n \in EventNames : unregister_event(n) /\ Idle
  \/ \E v \in Values, n \in EventNames : link(v, n) /\ Idle
  \/ \E v \in Values, n \in EventNames : unlink(v, n) /\ Idle
  \/ \E n \in EventNames, p \in Payloads : AtTopLevel /\ fire(n, p) /\ Idle
  \/ fire_next /\ Idle
  \/ fire_return /\ Idle
  \/ fire_except /\ Idle
  \/ cb_return /\ Idle
  \/ cb_raise /\ Idle
  \/ cb_catch /\ Idle
  \/ cb_propagate /\ Idle
  \/ caller_except /\ Idle

Spec == Init /\ [][Next]_vars

\* the deferred queue in use: user code calls the registry operations,
\* append and loop from the top level, callbacks only append
NextQueue ==
  \/ AtTopLevel /\ clear_events /\ Idle
  \/ \E n \in EventNames : AtTopLevel /\ register_event(n) /\ Idle
  \/ \E n \in EventNames : AtTopLevel /\ unregister_event(n) /\ Idle
  \/ \E v \in Callbacks, n \in EventNames : AtTopLevel /\ link(v, n) /\ Idle
  \/ \E v \in Callbacks, n \in EventNames : AtTopLevel /\ unlink(v, n) /\ Idle
  \/ fire_next /\ Idle
  \/ fire_return /\ Idle
  \/ fire_except /\ Idle
  \/ cb_return /\ Idle
  \/ cb_raise /\ Idle
  \/ caller_except /\ Idle
  \/ \E n \in EventNames, p \in Payloads : append(n, p) /\ Idle
  \/ AtTopLevel /\ loop /\ Idle
  \/ loop_fire /\ Idle
  \/ loop_return /\ Idle
  \/ loop_except /\ Idle

SpecQueue == Init /\ [][NextQueue]_vars

\* ------------------------------------ direct against deferred dispatch
\* The test of spec section 8: on one handler, fire a sequence of requests
\* directly; on a handler set up the same way, append them all and call
\* loop once; compare the callback calls and the final registries.  The
\* callbacks are deterministic here: each makes at most one fixed call of
\* the handler and then returns or raises.
NoCall == <<"none", 0, 0>>

Behaviours ==
  { [call |-> NoCall, raises |-> FALSE],
    [call |-> NoCall, raises |-> TRUE],
    [call |-> <<"unlink", 1, 1>>, raises |-> FALSE],
    [call |-> <<"link", 2, 1>>, raises |-> FALSE],
    [call |-> <<"unregister_event", 0, 1>>, raises |-> FALSE],
    [call |-> <<"append", 1, 1>>, raises |-> FALSE] }

\* the requests of a test: the k-th carries argument k
Plans ==
  UNION {[1..len -> EventNames] : len \in 1..MaxPlan}

Request(k) == <<run.plan[k], ((k - 1) % Cardinality(Payloads)) + 1>>

InitEq ==
  /\ InitHandler
  /\ \A n \in EventNames : is_event_registered(events, n)
  /\ run = [phase |-> "setup"]

Harness(op) == last' = Label(op, 0, 0, "None", NoFrame)

\* the handler is set up: callbacks are linked
eq_setup ==
  /\ run.phase = "setup"
  /\ \E v \in Callbacks, n \in EventNames : link(v, n)
  /\ Idle

\* the test begins: the requests and the callbacks' behaviour are fixed
eq_start ==
  /\ run.phase = "setup"
  /\ \E plan \in Plans, behav \in [Callbacks -> Behaviours] :
       run' = [phase |-> "direct", plan |-> plan, behav |-> behav, pos |-> 0,
               saved |-> <<events, heap>>, direct |-> <<>>]
  /\ Harness("eq_start")
  /\ UNCHANGED <<events, heap, event_queue, tolerate_exceptions, stack, exc,
                 trace>>

\* first run: the next request is fired directly
eq_fire ==
  /\ run.phase = "direct"
  /\ AtTopLevel
  /\ run.pos < Len(run.plan)
  /\ fire(Request(run.pos + 1)[1], Request(run.pos + 1)[2])
  /\ run' = [run EXCEPT !.pos = @ + 1]
  /\ trace' = trace

\* the first run is over (every request fired, or an exception reached the
\* test): what it did is kept, and the second run starts on a handler in
\* the state the first started in
eq_restart ==
  /\ run.phase = "direct"
  /\ AtTopLevel
  /\ exc # "none" \/ run.pos = Len(run.plan)
  /\ run' = [run EXCEPT !.phase = "deferred", !.pos = 0,
                        !.direct = <<trace, Registry>>]
  /\ events' = run.saved[1]
  /\ heap' = run.saved[2]
  /\ event_queue' = <<>>
  /\ exc' = "none"
  /\ trace' = <<>>
  /\ Harness("eq_restart")
  /\ UNCHANGED <<tolerate_exceptions, stack>>

\* second run: the next request is appended
eq_append ==
  /\ run.phase = "deferred"
  /\ AtTopLevel
  /\ run.pos < Len(run.plan)
  /\ append(Request(run.pos + 1)[1], Request(run.pos + 1)[2])
  /\ run' = [run EXCEPT !.pos = @ + 1]
  /\ trace' = trace

\* ... and then loop is called once
eq_loop ==
  /\ run.phase = "deferred"
  /\ AtTopLevel
  /\ run.pos = Len(run.plan)
  /\ loop
  /\ run' = [run EXCEPT !.phase = "looping"]
  /\ trace' = trace

\* loop is over: it returned, or an exception reached the test
eq_done ==
  /\ run.phase = "looping"
  /\ AtTopLevel
  /\ run' = [run EXCEPT !.phase = "done"]
  /\ Harness("eq_done")
  /\ UNCHANGED <<events, heap, event_queue, tolerate_exceptions, stack, exc,
                 trace>>

InCallback == stack # <<>> /\ Top.kind = "cb" /\ exc = "none"

\* the call the running callback makes, if it has one to make
eq_callback_call ==
  /\ InCallback
  /\ Top.ops = 0
  /\ LET c == run.behav[Top.cb].call
     IN  \/ c[1] = "link" /\ link(c[2], c[3])
         \/ c[1] = "unlink" /\ unlink(c[2], c[3])
         \/ c[1] = "unregister_event" /\ unregister_event(c[3])
         \/ c[1] = "append" /\ append(c[3], c[2])
  /\ Idle

ScriptOver == Top.ops = 1 \/ run.behav[Top.cb].call = NoCall

eq_callback_return ==
  /\ InCallback
  /\ ScriptOver
  /\ ~run.behav[Top.cb].raises
  /\ cb_return
  /\ Idle

eq_callback_raise ==
  /\ InCallback
  /\ ScriptOver
  /\ run.behav[Top.cb].raises
  /\ cb_raise
  /\ Idle

\* the test records the call of the callback
eq_fire_next ==
  /\ Len(trace) < MaxTrace
  /\ fire_next
  /\ trace' = Append(trace, <<stack'[Len(stack')].cb,
                              stack'[Len(stack')].payload>>)
  /\ run' = run

NextEq ==
  \/ eq_setup
  \/ eq_start
  \/ eq_fire
  \/ eq_restart
  \/ eq_append
  \/ eq_loop
  \/ eq_done
  \/ eq_callback_call
  \/ eq_callback_return
  \/ eq_callback_raise
  \/ eq_fire_next
  \/ fire_return /\ Idle
  \/ fire_except /\ Idle
  \/ cb_propagate /\ Idle
  \/ loop_fire /\ Idle
  \/ loop_return /\ Idle
  \/ loop_except /\ Idle

SpecEq == InitEq /\ [][NextEq]_vars

\* ------------------------------------------ callbacks that feed the queue
\* A drain test: the handler is set up from the top level (links, requests
\* appended), loop is called, and the callbacks that loop runs append the
\* request they are handling again.  In mode "always" every callback run
\* appends once and then returns or raises; in mode "stops" a callback run
\* may append while the callbacks' common budget lasts.  The requests of a
\* drain test all carry the same argument.
InitDrain ==
  /\ InitHandler
  /\ run \in {[phase |-> "drain", mode |-> "always", budget |-> 0],
              [phase |-> "drain", mode |-> "stops", budget |-> MaxBudget]}

\* the request the running callback was called for
Handled == <<stack[Len(stack) - 1].name, Top.payload>>

dr_callback_append ==
  /\ InCallback
  /\ Top.ops = 0
  /\ run.mode = "always" \/ run.budget > 0
  /\ append(Handled[1], Handled[2])
  /\ run' = IF run.mode = "stops" THEN [run EXCEPT !.budget = @ - 1] ELSE run
  /\ trace' = trace

Appended == run.mode = "always" => Top.ops = 1

dr_callback_return ==
  /\ InCallback
  /\ Appended
  /\ cb_return
  /\ Idle

dr_callback_raise ==
  /\ InCallback
  /\ Appended
  /\ cb_raise
  /\ Idle

\* the steps of a call that is running: the interpreter takes them
DrainStep ==
  \/ dr_callback_append
  \/ dr_callback_return
  \/ dr_callback_raise
  \/ fire_next /\ Idle
  \/ fire_return /\ Idle
  \/ fire_except /\ Idle
  \/ loop_fire /\ Idle
  \/ loop_return /\ Idle
  \/ loop_except /\ Idle

NextDrain ==
  \/ \E v \in Callbacks, n \in EventNames : AtTopLevel /\ link(v, n) /\ Idle
  \/ \E n \in EventNames : AtTopLevel /\ append(n, 1) /\ Idle
  \/ AtTopLevel /\ loop /\ Idle
  \/ caller_except /\ Idle
  \/ DrainStep

\* a call that has begun keeps running: every callback run ends, and fire
\* and loop take their next step
SpecDrain == InitDrain /\ [][NextDrain]_vars /\ WF_vars(DrainStep)

TypeOK ==
  /\ events \in [EventNames -> ListIds \cup {0}]
  /\ \A i \in ListIds : SeqToSet(heap[i]) \subseteq Callbacks
  /\ Len(event_queue) <= MaxQueue
  /\ Len(stack) <= 3
  /\ exc \in {"none", "KeyError", "EventNotAllowedError", "CallbackError"}

\* ================================================================ claims
\* the calls a dispatch makes when it calls every callback of lst, in order
Calls(lst, payload) == [k \in 1..Len(lst) |-> <<lst[k], payload>>]

FireFrames == {stack[i] : i \in {j \in 1..Len(stack) : stack[j].kind = "fire"}}

NoDuplicates(lst) == \A i, j \in 1..Len(lst) : lst[i] = lst[j] => i = j

\* C1: a fire whose callback list nobody changes while it runs calls the
\* callbacks in list order, each once, all with the arguments given to fire
\* (the callbacks called so far are the first idx entries of the list, and
\* all of them when fire returns); and a successful link puts the callback at
\* the tail of the event's list, so list order is the order of the links.
C1_FireInLinkOrder ==
  /\ [](/\ \A f \in FireFrames :
             ~f.mut => /\ f.idx <= Len(f.snap)
                       /\ f.inv = Calls(SubSeq(f.snap, 1, f.idx), f.payload)
         /\ \A i \in 1..Len(stack) :
              stack[i].kind = "cb" /\ i > 1 =>
                <<stack[i].cb, stack[i].payload>> =
                  stack[i - 1].inv[Len(stack[i - 1].inv)]
         /\ (last.op = "fire_return" /\ ~last.fr.mut =>
               last.fr.inv = Calls(last.fr.snap, last.fr.payload)))
  /\ [][last'.op = "link" /\ last'.out = "True" =>
          /\ is_event_registered(events, last'.name)
          /\ events' = events
          /\ heap' = [heap EXCEPT ![events[last'.name]] =
                                    Append(@, last'.val)]]_vars

C1_Witness ==
  /\ last.op = "fire_return"
  /\ ~last.fr.mut
  /\ last.fr.snap = <<2, 1>>
  /\ last.fr.inv = <<<<2, last.fr.payload>>, <<1, last.fr.payload>>>>

\* C2: no list of the registry ever holds a callback twice, and a link of a
\* callback that is already linked to the event returns False and leaves
\* the registry as it was.
C2_NoDuplicateCallbacks ==
  /\ [](\A i \in ListIds : NoDuplicates(heap[i]))
  /\ [][last'.op = "link" /\ is_event_registered(events, last'.name)
          /\ last'.val \in SeqToSet(heap[events[last'.name]]) =>
          last'.out = "False" /\ heap' = heap /\ events' = events
            /\ exc' = "none"]_vars

C2_Witness ==
  /\ last.op = "link"
  /\ last.out = "False"
  /\ last.val \in Callbacks
  /\ is_event_registered(events, last.name)
  /\ Len(heap[events[last.name]]) = 2
  /\ last.val = heap[events[last.name]][1]

\* C3: in strict mode a callback's exception leaves fire at once: the
\* dispatch that saw a callback fail never continues (it is the top frame
\* with the exception pending, and the next step removes it with the
\* exception still propagating), so no later callback is called; the
\* callbacks before the failing one were called once each, in order.
C3_StrictPropagates ==
  ~tolerate_exceptions =>
    /\ \A i \in 1..Len(stack) :
         stack[i].kind = "fire" /\ stack[i].failed # {} =>
           i = Len(stack) /\ exc # "none"
    /\ last.op = "fire_except" =>
         /\ exc = last.out
         /\ exc # "none"
         /\ last.fr.kind = "fire"
         /\ Cardinality(last.fr.failed) = 1
         /\ ~last.fr.mut =>
              /\ last.fr.inv =
                   Calls(SubSeq(last.fr.snap, 1, last.fr.idx), last.fr.payload)
              /\ last.fr.failed = {last.fr.snap[last.fr.idx]}

C3_Witness ==
  /\ ~tolerate_exceptions
  /\ last.op = "fire_except"
  /\ exc = "CallbackError"
  /\ ~last.fr.mut
  /\ Len(last.fr.snap) = 2
  /\ last.fr.idx = 1
  /\ Len(last.fr.inv) = 1

\* C4: in tolerant mode fire swallows every callback failure and goes on:
\* after the handler no exception is pending and the dispatch is still
\* running; a fire whose list nobody changed has called every callback when
\* it returns; and it returns True exactly when no callback failed.
C4_TolerantContinues ==
  tolerate_exceptions =>
    /\ last.op = "fire_except" =>
         /\ last.out = "continue"
         /\ exc = "none"
         /\ stack # <<>>
         /\ Top.kind = "fire"
         /\ Top.failed # {}
    /\ ~(stack = <<>> /\ exc = "CallbackError")
    /\ last.op = "fire_return" =>
         /\ (last.out = "True") <=> (last.fr.failed = {})
         /\ ~last.fr.mut =>
              last.fr.inv = Calls(last.fr.snap, last.fr.payload)

C4_Witness ==
  /\ tolerate_exceptions
  /\ last.op = "fire_return"
  /\ last.out = "False"
  /\ ~last.fr.mut
  /\ Len(last.fr.snap) = 2
  /\ Len(last.fr.inv) = 2
  /\ last.fr.failed = {last.fr.snap[1]}

\* C5: a dispatch calls exactly the callbacks that were linked when fire
\* began, in order, whatever the callbacks link or unlink meanwhile.
C5_SnapshotDispatch ==
  /\ \A f \in FireFrames :
       /\ Len(f.inv) <= Len(f.snap)
       /\ f.inv = Calls(SubSeq(f.snap, 1, Len(f.inv)), f.payload)
  /\ last.op = "fire_return" =>
       last.fr.inv = Calls(last.fr.snap, last.fr.payload)

\* C6: fire on a name that is not registered fails with the error of link.
C6_FireUnregisteredRaisesEventError ==
  last.op = "fire" /\ ~is_event_registered(events, last.name) =>
    exc = "EventNotAllowedError"

C9_LoopDrainsFifo ==
  /\ [](last.op = "loop_return" => event_queue = <<>>)
  /\ [][/\ last'.op = "append" =>
             event_queue' = Append(event_queue, <<last'.name, last'.val>>)
        /\ last'.op = "loop_fire" =>
             /\ event_queue # <<>>
             /\ <<last'.name, last'.val>> = Head(event_queue)
             /\ event_queue' = Tail(event_queue)
             /\ last'.out = "call" =>
                  /\ stack'[Len(stack')].kind = "fire"
                  /\ stack'[Len(stack')].name = last'.name
                  /\ stack'[Len(stack')].payload = last'.val
                  /\ stack'[Len(stack')].idx = 0
        /\ last'.op \notin {"append", "loop_fire"} =>
             event_queue' = event_queue]_vars

C9_Witness ==
  /\ last.op = "loop_fire"
  /\ last.out = "call"
  /\ Len(event_queue) = 1
  /\ Head(event_queue) # <<last.name, last.val>>
  /\ Len(heap[events[last.name]]) > 0

\* C10, as claimed: whatever the callbacks do, the deferred run makes the
\* callback calls of the direct run and ends with its registry.
C10_DeferredEqualsDirect ==
  run.phase = "done" => run.direct = <<trace, Registry>>

UsesQueue(b) == b.call[1] \in {"append", "loop"}

\* C10, amended: when no callback uses the deferred queue itself, the
\* deferred run (queue empty before the appends) makes the callback calls of
\* the direct run, in the same order with the same arguments, and ends with
\* the same registry.
C10_DeferredEqualsDirectNoQueueUse ==
  run.phase = "done" /\ (\A c \in Callbacks : ~UsesQueue(run.behav[c])) =>
    run.direct = <<trace, Registry>>

C10_Witness ==
  /\ run.phase = "done"
  /\ \A c \in Callbacks : ~UsesQueue(run.behav[c])
  /\ Len(run.plan) = 2
  /\ run.plan[1] # run.plan[2]
  /\ Len(trace) >= 3
  /\ run.direct = <<trace, Registry>>

IsPrefix(s, t) == Len(s) <= Len(t) /\ s = SubSeq(t, 1, Len(s))

LoopFrames == {stack[i] : i \in {j \in 1..Len(stack) : stack[j].kind = "loop"}}

\* C11: in tolerant mode a callback's failure never reaches loop: after a
\* fire that returned False loop goes on; the requests that were queued when
\* loop was called and are not fired yet are still at the head of the queue,
\* in order, and none is left when loop returns; and loop returns True
\* exactly when no fire returned False (True when it fired nothing).
C11_TolerantLoopAndOfFires ==
  tolerate_exceptions =>
    /\ \A f \in LoopFrames :
         /\ IsPrefix(f.todo, event_queue)
         /\ f.all_ok <=> (FALSE \notin f.results)
    /\ ~(stack # <<>> /\ Top.kind = "loop" /\ exc = "CallbackError")
    /\ (last.op = "fire_return" /\ stack # <<>> /\ Top.kind = "loop" =>
          exc = "none" /\ last.fr.all_ok \in Top.results)
    /\ (last.op = "loop_return" =>
          /\ last.fr.todo = <<>>
          /\ event_queue = <<>>
          /\ (last.out = "True") <=> (FALSE \notin last.fr.results))

C11_Witness ==
  /\ tolerate_exceptions
  /\ last.op = "loop_return"
  /\ last.out = "False"
  /\ last.fr.results = {TRUE, FALSE}
  /\ \A n \in EventNames : is_event_registered(events, n)

\* C12: in strict mode a callback's exception leaves loop at once: while it
\* propagates every step removes one frame and leaves the queue alone, and
\* it comes out of loop still pending; the request that was being fired is
\* gone from the queue, and the requests that were behind it when it was
\* popped are still at the head of the queue, in order (behind them only
\* what callbacks appended meanwhile); a loop called later starts with the
\* queue as it stands.
C12_StrictLoopLeavesRest ==
  /\ [](~tolerate_exceptions =>
          /\ \A f \in LoopFrames : IsPrefix(f.rest, event_queue)
          /\ (last.op = "loop_except" =>
                /\ exc = last.out
                /\ exc # "none"
                /\ stack = <<>>
                /\ IsPrefix(last.fr.rest, event_queue)
                /\ IsPrefix(last.fr.todo, last.fr.rest))
          /\ (last.op = "loop" => Top.todo = event_queue))
  /\ [][~tolerate_exceptions /\ exc = "CallbackError" =>
          /\ event_queue' = event_queue
          /\ \/ stack' = Pop(stack) /\ exc' = exc /\ stack # <<>>
             \/ stack = <<>> /\ last'.op = "caller_except"]_vars

C12_Witness ==
  /\ ~tolerate_exceptions
  /\ last.op = "loop_except"
  /\ exc = "CallbackError"
  /\ Len(last.fr.todo) = 1
  /\ event_queue = last.fr.rest
  /\ event_queue = last.fr.todo

\* C13: append, for a registered name and for one that is not, puts exactly
\* its request at the tail of the queue and returns None: the earlier
\* entries, the registry and the callback lists are as before, nothing is
\* raised, and no call begins (the stack has the frames it had).
C13_AppendOnlyEnqueues ==
  [][last'.op = "append" =>
       /\ event_queue' = Append(event_queue, <<last'.name, last'.val>>)
       /\ last'.out = "None"
       /\ events' = events
       /\ heap' = heap
       /\ exc' = "none"
       /\ Len(stack') = Len(stack)
       /\ \A i \in 1..Len(stack) :
            /\ stack'[i].kind = stack[i].kind
            /\ stack[i].kind # "cb" => stack'[i] = stack[i]]_vars

C13_Witness ==
  /\ last.op = "append"
  /\ ~is_event_registered(events, last.name)
  /\ Len(event_queue) = 2
  /\ event_queue[2] = <<last.name, last.val>>
  /\ event_queue[1] # event_queue[2]
  /\ \E n \in EventNames :
       is_event_registered(events, n) /\ heap[events[n]] # <<>>

\* C14: register_event of a registered name returns False and changes
\* nothing (same names, same lists); of a name that is not registered it
\* returns True and gives the name a new empty list, which is none of the
\* lists in use, while every other name keeps its list and every list its
\* callbacks.  It never raises.
C14_RegisterIdempotent ==
  [][last'.op = "register_event" =>
       /\ exc' = "none"
       /\ IF is_event_registered(events, last'.name)
            THEN /\ last'.out = "False"
                 /\ events' = events
                 /\ heap' = heap
            ELSE /\ last'.out = "True"
                 /\ is_event_registered(events', last'.name)
                 /\ heap'[events'[last'.name]] = <<>>
                 /\ events'[last'.name] \notin Referenced(events, stack)
                 /\ \A m \in EventNames \ {last'.name} : events'[m] = events[m]
                 /\ \A l \in Referenced(events, stack) \ {0} :
                      heap'[l] = heap[l]]_vars

C14_Witness ==
  /\ last.op = "register_event"
  /\ last.out = "False"
  /\ Len(heap[events[last.name]]) = 2
  /\ Cardinality({n \in EventNames : is_event_registered(events, n)}) = 1

Without(lst, v) == SelectSeq(lst, LAMBDA x : x # v)

\* C15: unlink on a registered event never raises and leaves the names as
\* they are; when the callback is linked to the event it returns True and
\* the event's list is the old one without that callback, the others in
\* their order, every other list untouched; when it is not linked it
\* returns False and no list changes.  A fire that begins afterwards goes
\* through the list as unlink left it.
C15_UnlinkRemovesOnlyTarget ==
  /\ [][last'.op = "unlink" /\ is_event_registered(events, last'.name) =>
          /\ exc' = "none"
          /\ events' = events
          /\ IF last'.val \in SeqToSet(heap[events[last'.name]])
               THEN /\ last'.out = "True"
                    /\ heap' = [heap EXCEPT ![events[last'.name]] =
                                              Without(@, last'.val)]
                    /\ Len(heap'[events[last'.name]]) =
                         Len(heap[events[last'.name]]) - 1
               ELSE /\ last'.out = "False"
                    /\ heap' = heap]_vars
  /\ [](last.op = "fire" /\ last.out = "call" =>
          /\ Top.kind = "fire"
          /\ Top.idx = 0
          /\ Top.lst = events[last.name]
          /\ Top.snap = heap[events[last.name]])

C15_Witness ==
  /\ last.op = "unlink"
  /\ last.out = "True"
  /\ is_event_registered(events, last.name)
  /\ Len(heap[events[last.name]]) = 1
  /\ \E n \in EventNames \ {last.name} :
       /\ is_event_registered(events, n)
       /\ Len(heap[events[n]]) = 2
       /\ heap[events[n]][1] = last.val

\* C16: unregister_event never raises and never touches the queue; on a
\* registered name it returns True and the name is no longer a key, while
\* every other name keeps its list with the same callbacks; on a name that
\* is not registered it returns False and names and lists are as before.
\* A registration that succeeds, a renewed one included, starts the name
\* with an empty list: the callbacks linked before do not come back.
C16_UnregisterDropsEvent ==
  [][/\ last'.op = "unregister_event" =>
          /\ exc' = "none"
          /\ event_queue' = event_queue
          /\ IF is_event_registered(events, last'.name)
               THEN /\ last'.out = "True"
                    /\ events' = [events EXCEPT ![last'.name] = 0]
                    /\ \A m \in EventNames \ {last'.name} :
                         is_event_registered(events, m) =>
                           heap'[events'[m]] = heap[events[m]]
               ELSE /\ last'.out = "False"
                    /\ events' = events
                    /\ heap' = heap
     /\ last'.op = "register_event" /\ last'.out = "True" =>
          /\ ~is_event_registered(events, last'.name)
          /\ heap'[events'[last'.name]] = <<>>
          /\ event_queue' = event_queue]_vars

C16_Witness ==
  /\ last.op = "unregister_event"
  /\ last.out = "True"
  /\ ~is_event_registered(events, last.name)
  /\ Len(event_queue) = 2
  /\ event_queue[1][1] = last.name
  /\ event_queue[2][1] # last.name
  /\ \E n \in EventNames \ {last.name} :
       is_event_registered(events, n) /\ Len(heap[events[n]]) = 2

\* C17: link of a value that is_callable rejects returns False and raises
\* nothing, whether the event name is registered or not, and leaves names
\* and lists as they were.
C17_LinkNonCallableReturnsFalse ==
  [][last'.op = "link" /\ ~is_callable(last'.val) =>
       /\ last'.out = "False"
       /\ exc' = "none"
       /\ events' = events
       /\ heap' = heap]_vars

C17_Witness ==
  /\ last.op = "link"
  /\ last.val = 0
  /\ last.out = "False"
  /\ exc = "none"
  /\ ~is_event_registered(events, last.name)
  /\ \E n \in EventNames :
       is_event_registered(events, n) /\ heap[events[n]] # <<>>

\* C18: when loop pops a request whose event is not registered, the lookup
\* in fire raises KeyError with the request already off the queue and no
\* callback called; with tolerance on or off the next step takes the
\* exception out of loop, and the requests that were behind the popped one
\* are the queue, unfired.
C18_LoopUnregisteredPropagates ==
  /\ [](last.op = "loop_except" /\ exc = "KeyError" =>
          /\ stack = <<>>
          /\ last.out = "KeyError"
          /\ event_queue = last.fr.rest)
  /\ [][/\ last'.op = "loop_fire"
             /\ ~is_event_registered(events, last'.name) =>
               /\ exc' = "KeyError"
               /\ <<last'.name, last'.val>> = Head(event_queue)
               /\ event_queue' = Tail(event_queue)
               /\ Len(stack') = Len(stack)
               /\ stack'[Len(stack')].kind = "loop"
               /\ events' = events
               /\ heap' = heap
        /\ exc = "KeyError" /\ stack # <<>> /\ Top.kind = "loop" =>
               /\ last'.op = "loop_except"
               /\ exc' = "KeyError"
               /\ stack' = Pop(stack)
               /\ event_queue' = event_queue]_vars

C18_Witness ==
  /\ tolerate_exceptions
  /\ last.op = "loop_except"
  /\ exc = "KeyError"
  /\ event_queue # <<>>
  /\ event_queue = last.fr.rest
  /\ last.fr.called

\* C19: a request that a callback appends while loop drains goes to the
\* tail of the queue, behind every request queued before it, and loop takes
\* requests from the head only, so the requests queued at the call are
\* fired first; loop returns only with the queue empty, so the appended
\* requests are fired by the same call.  When every callback run appends a
\* request, a loop that has called a callback never returns; when the
\* callbacks stop appending, every loop that was called ends (it returns,
\* or an exception leaves it).
C19_LoopDrainsAppendedRequests ==
  /\ [](/\ \A f \in LoopFrames : IsPrefix(f.todo, event_queue)
        /\ (last.op = "loop_return" => event_queue = <<>>)
        /\ (last.op = "loop_return" /\ run.mode = "always" =>
              ~last.fr.called))
  /\ [][/\ last'.op = "append" =>
             event_queue' = Append(event_queue, <<last'.name, last'.val>>)
        /\ last'.op = "loop_fire" =>
             /\ <<last'.name, last'.val>> = Head(event_queue)
             /\ event_queue' = Tail(event_queue)
             /\ last'.fr.todo # <<>> => Head(last'.fr.todo) = Head(event_queue)
        /\ last'.op \notin {"append", "loop_fire"} =>
             event_queue' = event_queue]_vars
  /\ (run.mode = "stops" /\ last.op = "loop") ~>
       (last.op \in {"loop_return", "loop_except"})

C19_Witness ==
  /\ run.mode = "stops"
  /\ run.budget = 0
  /\ last.op = "loop_fire"
  /\ last.out = "call"
  /\ last.fr.todo = <<>>
  /\ last.fr.called
  /\ event_queue # <<>>

\* the registry no longer maps the event of dispatch f to the list that f
\* is going through: the event was unregistered, or the registry cleared,
\* while f ran
Dropped(f) == events[f.name] # f.lst

\* C20: a dispatch whose event is unregistered (unregister_event, or
\* clear_events) by one of its callbacks still holds its list, with the
\* callbacks it had, and goes on through it: unless a link or unlink changed
\* the list before, the callbacks called so far are the first ones of the
\* list in order, and all of them when fire returns.  A fire called on the
\* name afterwards finds no key and raises KeyError.
C20_UnregisterDuringFire ==
  /\ \A f \in FireFrames :
       Dropped(f) /\ ~f.mut =>
         /\ heap[f.lst] = f.snap
         /\ f.idx <= Len(f.snap)
         /\ f.inv = Calls(SubSeq(f.snap, 1, f.idx), f.payload)
  /\ (last.op = "fire_return" /\ Dropped(last.fr) /\ ~last.fr.mut =>
        last.fr.inv = Calls(last.fr.snap, last.fr.payload))
  /\ (last.op \in {"unregister_event", "clear_events"} /\ last.out = "True" =>
        /\ exc = "none"
        /\ \A n \in EventNames :
             last.op = "clear_events" \/ n = last.name =>
               ~is_event_registered(events, n))
  /\ (last.op = "fire" /\ ~is_event_registered(events, last.name) =>
        exc = "KeyError" /\ stack = <<>>)

C20_Witness ==
  /\ last.op = "fire_return"
  /\ ~is_event_registered(events, last.fr.name)
  /\ ~last.fr.mut
  /\ Len(last.fr.snap) = 2
  /\ last.fr.inv = Calls(last.fr.snap, last.fr.payload)
  /\ \E n \in EventNames : is_event_registered(events, n)
====
